---- MODULE Spec2Model ----
(***************************************************************************)
(* commit-craft: the POST /generate_commit_message handler (app/main.py)   *)
(* and generate_commit_message_with_context (app/llm_client.py).           *)
(*                                                                         *)
(* A Python str is a sequence of one-character strings.  A prompt line is  *)
(* a record [fmt, args]: fmt is the literal text of the f-string with {0}  *)
(* for the interpolated value, args the interpolated values.               *)
(***************************************************************************)
EXTENDS Integers, Sequences, FiniteSets, TLC

VARIABLES
    pc,                \* where the request is in the handler
    diff_text,         \* DiffInput.diff_text
    branch_name,       \* DiffInput.branch_name
    changed_files,     \* DiffInput.changed_files
    author_name,       \* DiffInput.author_name
    existing_message,  \* DiffInput.existing_message
    client,            \* llm_client.client: "ready" or "None"
    backend,           \* what the chat-completion service does with the call
    invocations,       \* times generate_commit_message_with_context was awaited
    calls,             \* number of chat-completion calls issued
    prompt_lines,      \* llm_client prompt_lines
    message,           \* llm_client message (local variable)
    outcome,           \* how generate_commit_message_with_context ended
    status,            \* HTTP status of the response, 0 before it is sent
    body,              \* commit_message of the 200 response
    authorization,     \* the Authorization header: scheme and credentials
    fields,            \* the fields the JSON body holds
    exc,               \* the exception generate_commit_message_with_context raised
    detail,            \* detail of an error response
    www_authenticate,  \* WWW-Authenticate header of the response, "" for none
    rid,               \* the request the variables above belong to
    others,            \* the other requests in flight, as suspended frames
    hits               \* limiter: requests of the client address counted so far

vars == <<pc, diff_text, branch_name, changed_files, author_name,
          existing_message, client, backend, invocations, calls,
          prompt_lines, message, outcome, status, body, authorization,
          fields, exc, detail, www_authenticate, rid, others, hits>>

\* the request, the module-level client, the backend's behaviour, and the
\* frames of the other requests
request == <<diff_text, branch_name, changed_files, author_name,
             existing_message, client, backend, authorization, fields,
             rid, others>>

\* what no step of the dependency, the handler or the function writes
inputs == <<request, hits>>

----------------------------------------------------------------------------
(* Bounds of the model *)

MaxLen == 4          \* longest completion drawn for the sanitizer
MaxBranchLen == 5    \* longest branch name drawn for the ticket pattern
MaxFiles == 11       \* longest changed_files list
MaxPad == 2          \* longest text put around a merge phrase
MaxOver == 3         \* how far a diff is drawn around max_diff_len
MaxPeriod == 6       \* diffs differ in where their line breaks fall

----------------------------------------------------------------------------
(* Characters and str methods *)

\* str.strip() and str.isspace(): Python's whitespace (the ASCII part)
Whitespace == {" ", "\t", "\n", "\r", "\f"}

\* str.splitlines(): the line boundaries (the ASCII part)
LineBreaks == {"\n", "\r", "\f"}

Quotes == {"\"", "'"}

\* the character U+0060, which a TLA+ string cannot hold
Backtick == "<backtick>"

LowerCase == <<"a","b","c","d","e","f","g","h","i","j","k","l","m",
               "n","o","p","q","r","s","t","u","v","w","x","y","z">>
UpperCase == <<"A","B","C","D","E","F","G","H","I","J","K","L","M",
               "N","O","P","Q","R","S","T","U","V","W","X","Y","Z">>
Digits == {"0","1","2","3","4","5","6","7","8","9"}

Range(s) == {s[i] : i \in 1..Len(s)}

Min(S) == CHOOSE x \in S : \A y \in S : x <= y

\* all sequences over A of length at most n
SeqsUpTo(A, n) == UNION {[1..k -> A] : k \in 0..n}

\* index of the first character of s not in set, Len(s)+1 when there is none
FirstNotIn(s, set) ==
    Min({i \in 1..Len(s) : s[i] \notin set} \cup {Len(s) + 1})

\* index of the last character of s not in set, 0 when there is none
LastNotIn(s, set) ==
    Len(s) + 1 - FirstNotIn([i \in 1..Len(s) |-> s[Len(s) + 1 - i]], set)

\* str.strip(chars)
StripChars(s, set) ==
    SubSeq(s, FirstNotIn(s, set), LastNotIn(s, set))

\* str.strip(' ') in place of str.strip(): only spaces are trimmed
Strip_SpacesOnly(s) == StripChars(s, {" "})

\* str.strip()
Strip(s) == StripChars(s, Whitespace)

\* str.isspace(): false for the empty string
IsSpace(s) == Len(s) > 0 /\ Range(s) \subseteq Whitespace

\* index of the first character of s in set, Len(s)+1 when there is none
FirstIn(s, set) ==
    Min({i \in 1..Len(s) : s[i] \in set} \cup {Len(s) + 1})

\* str.split('\n')[0] in place of str.splitlines()[0]
FirstLine_NewlineOnly(s) == SubSeq(s, 1, FirstIn(s, {"\n"}) - 1)

\* str.splitlines()[0] of a non-empty string: the text before the first line
\* boundary
FirstLine(s) == SubSeq(s, 1, FirstIn(s, LineBreaks) - 1)

\* pat in s
Contains(s, pat) ==
    \E i \in 0..(Len(s) - Len(pat)) : SubSeq(s, i + 1, i + Len(pat)) = pat

\* str.upper() (ASCII)
UpperChar(c) ==
    IF \E i \in 1..26 : LowerCase[i] = c
    THEN UpperCase[CHOOSE i \in 1..26 : LowerCase[i] = c]
    ELSE c

Upper(s) == [i \in 1..Len(s) |-> UpperChar(s[i])]

\* str(n) of an integer n >= 0
DigitChar(d) == <<"0","1","2","3","4","5","6","7","8","9">>[d + 1]

RECURSIVE Str(_)
Str(n) == IF n < 10 THEN <<DigitChar(n)>> ELSE Str(n \div 10) \o <<DigitChar(n % 10)>>

----------------------------------------------------------------------------
(* Post-processing of the completion, llm_client.py lines 109-123 *)

FALLBACK_MESSAGE ==
    <<"c","h","o","r","e",":"," ","A","u","t","o","m","a","t","i","c"," ",
      "g","e","n","e","r","a","t","i","o","n"," ","f","a","i","l","e","d">>

\* the leading quote removed only when the same quote ends the string
SubLeadingQuote_IfPaired(m) ==
    IF Len(m) > 1 /\ m[1] \in Quotes /\ m[Len(m)] = m[1]
    THEN SubSeq(m, 2, Len(m)) ELSE m

\* re.sub(r'^["\']', '', message): without re.MULTILINE ^ matches only at the
\* start of the string
SubLeadingQuote(m) ==
    IF Len(m) > 0 /\ m[1] \in Quotes THEN SubSeq(m, 2, Len(m)) ELSE m

\* re.sub(r'["\']$', '', message): $ matches at the end of the string and
\* before a newline that ends the string
SubTrailingQuote(m) ==
    IF Len(m) > 0 /\ m[Len(m)] \in Quotes
        THEN SubSeq(m, 1, Len(m) - 1)
    ELSE IF Len(m) > 1 /\ m[Len(m)] = "\n" /\ m[Len(m) - 1] \in Quotes
        THEN SubSeq(m, 1, Len(m) - 2) \o <<"\n">>
    ELSE m

\* message.strip(chars): chars are the backtick, the space and the newline
StripFence(m) == StripChars(m, {Backtick, " ", "\n"})

\* message.splitlines()[0] if message else ""
TakeFirstLine(m) == IF Len(m) > 0 THEN FirstLine(m) ELSE <<>>

\* the text the first line is taken from (lines 109-116)
Cleaned(content) ==
    StripFence(SubTrailingQuote(SubLeadingQuote(Strip(content))))

\* the value generate_commit_message_with_context returns for a completion
Sanitize(content) ==
    LET m == TakeFirstLine(Cleaned(content))
    IN  IF Len(m) = 0 THEN FALLBACK_MESSAGE ELSE m

----------------------------------------------------------------------------
(* The user prompt, llm_client.py lines 54-93 *)

Line(fmt, args) == [fmt |-> fmt, args |-> args]

INSTRUCTION == "Generate a Conventional Commit message subject line based on the following context and git diff."
CONTEXT_HEADER == "\n# Context:"
BRANCH_FMT == "- Branch: {0}"
TICKET_FMT == "- Potential Ticket ID from branch: {0} (If relevant, the commit body should reference this, e.g., 'Refs {0}', but DO NOT include it in the subject line itself unless essential)."
AUTHOR_FMT == "- Author: {0}"
FILES_HEADER == "- Changed Files:"
FILE_FMT == "  - {0}"
MORE_FMT == "  - ... ({0} more)"
MERGE_NOTE_FMT == "- Note: The existing message ('{0}...') seems like a default merge message. Generate a new message based *only* on the diff and other context."
DRAFT_FMT == "- Existing Message Draft: '{0}' (Analyze the diff and context. Either refine this draft or generate a completely new subject line if this draft is inadequate or inaccurate.)"
DIFF_HEADER == "\n# Git Diff:"
FENCE_OPEN == "<backtick><backtick><backtick>diff"
DIFF_FMT == "{0}"
FENCE_CLOSE == "<backtick><backtick><backtick>"
FINAL_LINE == "\nGenerate the single-line commit message subject NOW:"

\* re.IGNORECASE dropped: [A-Z] matches upper-case letters only
IsLetter_UpperOnly(c) == \E i \in 1..26 : c = UpperCase[i]

IsLetter(c) == \E i \in 1..26 : c = LowerCase[i] \/ c = UpperCase[i]

\* where a match of [A-Z]+-\d+ (re.IGNORECASE) that starts at i ends, 0 when
\* none starts there.  Both + are greedy, and a shorter run of letters is
\* followed by a letter, not by the hyphen.
MatchEnd(s, i) ==
    LET n == Len(s)
        j == Min({k \in i..n : ~IsLetter(s[k])} \cup {n + 1})
        e == Min({k \in (j + 1)..n : s[k] \notin Digits} \cup {n + 1})
    IN  IF j > i /\ j <= n /\ s[j] = "-" /\ e > j + 1 THEN e - 1 ELSE 0

\* re.search(r'([A-Z]+-\d+)', branch_name, re.IGNORECASE): group(1) of the
\* leftmost match, <<>> for None (a match is never empty)
TicketMatch(s) ==
    LET starts == {i \in 1..Len(s) : MatchEnd(s, i) # 0}
    IN  IF starts = {} THEN <<>>
        ELSE SubSeq(s, Min(starts), MatchEnd(s, Min(starts)))

limit == 10
max_diff_len == 15000

TRUNCATED_MARKER ==
    <<"\n",".",".","."," ","[","T","R","U","N","C","A","T","E","D","]">>

MERGE_PR == <<"M","e","r","g","e"," ","p","u","l","l"," ",
              "r","e","q","u","e","s","t"," ","#">>
MERGE_BRANCH == <<"M","e","r","g","e"," ","b","r","a","n","c","h"," ">>

\* lines 62-67
TicketLines(branch) ==
    LET m == TicketMatch(branch)
    IN  IF m # <<>> THEN <<Line(TICKET_FMT, <<Upper(m)>>)>> ELSE <<>>

\* len(changed_files) >= limit in place of > limit at line 76
FilesLines_SummaryAtLimit(files) ==
    IF Len(files) > 0
    THEN <<Line(FILES_HEADER, <<>>)>>
         \o [i \in 1..(IF Len(files) < limit THEN Len(files) ELSE limit)
                |-> Line(FILE_FMT, <<files[i]>>)]
         \o (IF Len(files) >= limit
             THEN <<Line(MORE_FMT, <<Str(Len(files) - limit)>>)>>
             ELSE <<>>)
    ELSE <<>>

\* lines 71-77
FilesLines(files) ==
    IF Len(files) > 0
    THEN <<Line(FILES_HEADER, <<>>)>>
         \o [i \in 1..(IF Len(files) < limit THEN Len(files) ELSE limit)
                |-> Line(FILE_FMT, <<files[i]>>)]
         \o (IF Len(files) > limit
             THEN <<Line(MORE_FMT, <<Str(Len(files) - limit)>>)>>
             ELSE <<>>)
    ELSE <<>>

\* the isspace() test of line 79 dropped
ExistingLines_NoBlankCheck(existing) ==
    IF Len(existing) > 0
    THEN IF Contains(existing, MERGE_PR) \/ Contains(existing, MERGE_BRANCH)
         THEN <<Line(MERGE_NOTE_FMT, <<FirstLine(existing)>>)>>
         ELSE <<Line(DRAFT_FMT, <<FirstLine(existing)>>)>>
    ELSE <<>>

\* lines 79-83
ExistingLines(existing) ==
    IF Len(existing) > 0 /\ ~IsSpace(existing)
    THEN IF Contains(existing, MERGE_PR) \/ Contains(existing, MERGE_BRANCH)
         THEN <<Line(MERGE_NOTE_FMT, <<FirstLine(existing)>>)>>
         ELSE <<Line(DRAFT_FMT, <<FirstLine(existing)>>)>>
    ELSE <<>>

\* len(diff_text) >= max_diff_len in place of > max_diff_len at line 88
TruncatedDiff_AtLimit(diff) ==
    IF Len(diff) >= max_diff_len
    THEN SubSeq(diff, 1, max_diff_len) \o TRUNCATED_MARKER
    ELSE diff

\* line 88
TruncatedDiff(diff) ==
    IF Len(diff) > max_diff_len
    THEN SubSeq(diff, 1, max_diff_len) \o TRUNCATED_MARKER
    ELSE diff

\* lines 85-91
DiffLines(diff) ==
    <<Line(DIFF_HEADER, <<>>), Line(FENCE_OPEN, <<>>),
      Line(DIFF_FMT, <<TruncatedDiff(diff)>>), Line(FENCE_CLOSE, <<>>),
      Line(FINAL_LINE, <<>>)>>

\* the ticket hint appended after line 69 instead of before it
PromptLines_TicketAfterAuthor(diff, branch, files, author, existing) ==
    <<Line(INSTRUCTION, <<>>), Line(CONTEXT_HEADER, <<>>),
      Line(BRANCH_FMT, <<branch>>), Line(AUTHOR_FMT, <<author>>)>>
    \o TicketLines(branch)
    \o FilesLines(files)
    \o ExistingLines(existing)
    \o DiffLines(diff)

\* prompt_lines as joined at line 93
PromptLines(diff, branch, files, author, existing) ==
    <<Line(INSTRUCTION, <<>>), Line(CONTEXT_HEADER, <<>>),
      Line(BRANCH_FMT, <<branch>>)>>
    \o TicketLines(branch)
    \o <<Line(AUTHOR_FMT, <<author>>)>>
    \o FilesLines(files)
    \o ExistingLines(existing)
    \o DiffLines(diff)

----------------------------------------------------------------------------
(* The request: generate_commit_message_endpoint (main.py lines 79-115)    *)
(* awaiting generate_commit_message_with_context (llm_client.py 40-133)    *)

\* main.py line 13: API_SECRET_KEY, not empty once the module is imported
\* (lines 21-23 raise otherwise, so the 500 of lines 30-34 is never sent)
API_SECRET_KEY == "test_secret_key_123"

\* models.py lines 6-11: the fields of DiffInput, all required
AllFields == {"diff_text", "branch_name", "changed_files", "author_name",
              "existing_message"}

\* main.py line 114
GENERIC_DETAIL == "Failed to generate commit message due to an internal server error."

NoException == [text |-> "", cause |-> ""]

\* main.py line 14: DEFAULT_RATE_LIMIT "10/minute", the number of requests
\* of one address the limiter admits in a window
RATE_LIMIT == 10

\* main.py lines 51, 61-63: SlowAPIMiddleware counts the request against the
\* default limit of its address before the route is called
Admit ==
    /\ pc = "incoming"
    /\ hits < RATE_LIMIT
    /\ hits' = hits + 1
    /\ pc' = "arrived"
    /\ UNCHANGED <<request, invocations, calls, prompt_lines, message,
                  outcome, status, body, exc, detail, www_authenticate>>

\* main.py lines 51, 61-63: RateLimitExceeded, answered 429 by
\* _rate_limit_exceeded_handler
RateLimited ==
    /\ pc = "incoming"
    /\ hits >= RATE_LIMIT
    /\ status' = 429
    /\ detail' = "Rate limit exceeded"
    /\ pc' = "responded"
    /\ UNCHANGED <<inputs, invocations, calls, prompt_lines, message,
                  outcome, body, exc, www_authenticate>>

\* HTTPBearer compares the scheme in lower case
IsBearer(scheme) == scheme \in {"Bearer", "bearer", "BEARER"}

\* main.py lines 26 and 28: bearer_scheme = HTTPBearer() answers a request
\* with no Authorization header, or with a header that has no credentials,
\* by itself: 403 "Not authenticated", no WWW-Authenticate header
\* (test_main.py line 91: "FastAPI's default ... is 403 if auto_error=True")
BearerRejectsMissing ==
    /\ pc = "arrived"
    /\ (authorization.scheme = "" \/ authorization.credentials = "")
    /\ status' = 403
    /\ detail' = "Not authenticated"
    /\ www_authenticate' = ""
    /\ pc' = "responded"
    /\ UNCHANGED <<inputs, invocations, calls, prompt_lines, message,
                  outcome, body, exc>>

\* main.py lines 26 and 28: HTTPBearer() answers a scheme other than bearer
\* by itself: 403 "Invalid authentication credentials" (test_main.py 96-105)
BearerRejectsScheme ==
    /\ pc = "arrived"
    /\ authorization.scheme # "" /\ authorization.credentials # ""
    /\ ~IsBearer(authorization.scheme)
    /\ status' = 403
    /\ detail' = "Invalid authentication credentials"
    /\ www_authenticate' = ""
    /\ pc' = "responded"
    /\ UNCHANGED <<inputs, invocations, calls, prompt_lines, message,
                  outcome, body, exc>>

\* main.py lines 36-41: verify_token, credentials.scheme != "Bearer"
RejectScheme ==
    /\ pc = "arrived"
    /\ authorization.scheme # "" /\ authorization.credentials # ""
    /\ IsBearer(authorization.scheme)
    /\ authorization.scheme # "Bearer"
    /\ status' = 401
    /\ detail' = "Invalid authentication scheme. Use Bearer token."
    /\ www_authenticate' = "Bearer"
    /\ pc' = "responded"
    /\ UNCHANGED <<inputs, invocations, calls, prompt_lines, message,
                  outcome, body, exc>>

\* main.py lines 42-47: verify_token, credentials.credentials != API_SECRET_KEY
RejectToken ==
    /\ pc = "arrived"
    /\ authorization.scheme = "Bearer" /\ authorization.credentials # ""
    /\ authorization.credentials # API_SECRET_KEY
    /\ status' = 403
    /\ detail' = "Invalid or expired token."
    /\ www_authenticate' = "Bearer"
    /\ pc' = "responded"
    /\ UNCHANGED <<inputs, invocations, calls, prompt_lines, message,
                  outcome, body, exc>>

\* the comparison of lines 42-47 left out
Authenticate_AnyToken ==
    /\ pc = "arrived"
    /\ authorization.scheme = "Bearer"
    /\ authorization.credentials # ""
    /\ pc' = "authenticated"
    /\ UNCHANGED <<inputs, invocations, calls, prompt_lines, message,
                  outcome, status, body, exc, detail, www_authenticate>>

\* main.py line 48: verify_token returns True
Authenticate ==
    /\ pc = "arrived"
    /\ authorization.scheme = "Bearer"
    /\ authorization.credentials = API_SECRET_KEY
    /\ pc' = "authenticated"
    /\ UNCHANGED <<inputs, invocations, calls, prompt_lines, message,
                  outcome, status,
                  body, exc, detail, www_authenticate>>

\* main.py line 79 with models.py lines 4-11: commit_data: DiffInput, a
\* required field is missing (test_main.py lines 163-177)
RejectBody ==
    /\ pc = "authenticated"
    /\ fields # AllFields
    /\ status' = 422
    /\ detail' = "Field required"
    /\ pc' = "responded"
    /\ UNCHANGED <<inputs, invocations, calls, prompt_lines, message,
                  outcome, body, exc,
                  www_authenticate>>

\* main.py lines 79-90: the body is a DiffInput and the handler is entered
AcceptBody ==
    /\ pc = "authenticated"
    /\ fields = AllFields
    /\ pc' = "received"
    /\ UNCHANGED <<inputs, invocations, calls, prompt_lines, message,
                  outcome, status,
                  body, exc, detail, www_authenticate>>

\* main.py lines 92-96
RejectEmptyDiff ==
    /\ pc = "received"
    /\ (Len(diff_text) = 0 \/ IsSpace(diff_text))
    /\ status' = 400
    /\ pc' = "responded"
    /\ detail' = "diff_text cannot be empty."
    /\ UNCHANGED <<inputs, invocations, calls, prompt_lines, message,
                  outcome, body, exc,
                  www_authenticate>>

\* main.py lines 98-106
CallGenerate ==
    /\ pc = "received"
    /\ ~(Len(diff_text) = 0 \/ IsSpace(diff_text))
    /\ invocations' = invocations + 1
    /\ pc' = "generate"
    /\ UNCHANGED <<inputs, calls, prompt_lines, message, outcome, status,
                  body, exc, detail, www_authenticate>>

\* llm_client.py lines 50-52
ClientMissing ==
    /\ pc = "generate"
    /\ client = "None"
    /\ outcome' = "ConnectionError"
    /\ pc' = "raised"
    /\ exc' = [text |-> "LLM client failed to initialize.", cause |-> "none"]
    /\ UNCHANGED <<inputs, invocations, calls, prompt_lines, message, status,
                  body,
                  detail, www_authenticate>>

\* llm_client.py lines 54-108: the prompt is built and the one call is issued
SendRequest ==
    /\ pc = "generate"
    /\ client # "None"
    /\ prompt_lines' = PromptLines(diff_text, branch_name, changed_files,
                                   author_name, existing_message)
    /\ calls' = calls + 1
    /\ pc' = "awaiting"
    /\ UNCHANGED <<inputs, invocations, message, outcome, status, body, exc,
                  detail,
                  www_authenticate>>

\* llm_client.py line 109: response.choices[0].message.content.strip()
ReceiveCompletion ==
    /\ pc = "awaiting"
    /\ backend.kind = "ok"
    /\ message' = Strip(backend.content)
    /\ pc' = "trimmed"
    /\ UNCHANGED <<inputs, invocations, calls, prompt_lines, outcome, status,
                  body, exc,
                  detail, www_authenticate>>

\* a failed call issued once more instead of lines 128-133
BackendFails_Retry ==
    /\ pc = "awaiting"
    /\ backend.kind # "ok"
    /\ IF calls < 2
       THEN /\ calls' = calls + 1
            /\ UNCHANGED <<pc, outcome, exc>>
       ELSE /\ outcome' = "ConnectionError"
            /\ pc' = "raised"
            /\ exc' = [text |-> "Failed to communicate with LLM service at {llm_api_base_url}",
                       cause |-> backend.kind]
            /\ UNCHANGED calls
    /\ UNCHANGED <<inputs, invocations, prompt_lines, message, status, body,
                  detail, www_authenticate>>

\* llm_client.py lines 128-133: the call raised, or the response has no
\* choices (IndexError) or no content (AttributeError on None)
BackendFails ==
    /\ pc = "awaiting"
    /\ backend.kind # "ok"
    /\ outcome' = "ConnectionError"
    /\ pc' = "raised"
    /\ exc' = [text |-> "Failed to communicate with LLM service at {llm_api_base_url}",
               cause |-> backend.kind]
    /\ UNCHANGED <<inputs, invocations, calls, prompt_lines, message, status,
                  body,
                  detail, www_authenticate>>

\* llm_client.py lines 114-115
StripQuotes ==
    /\ pc = "trimmed"
    /\ message' = SubTrailingQuote(SubLeadingQuote(message))
    /\ pc' = "unquoted"
    /\ UNCHANGED <<inputs, invocations, calls, prompt_lines, outcome, status,
                  body, exc,
                  detail, www_authenticate>>

\* llm_client.py line 116
StripBackticks ==
    /\ pc = "unquoted"
    /\ message' = StripFence(message)
    /\ pc' = "stripped"
    /\ UNCHANGED <<inputs, invocations, calls, prompt_lines, outcome, status,
                  body, exc,
                  detail, www_authenticate>>

\* llm_client.py line 118
KeepFirstLine ==
    /\ pc = "stripped"
    /\ message' = TakeFirstLine(message)
    /\ pc' = "lined"
    /\ UNCHANGED <<inputs, invocations, calls, prompt_lines, outcome, status,
                  body, exc,
                  detail, www_authenticate>>

\* the fallback of lines 121-123 dropped
ReturnMessage_NoFallback ==
    /\ pc = "lined"
    /\ outcome' = "returned"
    /\ pc' = "returned"
    /\ UNCHANGED <<inputs, invocations, calls, prompt_lines, message, status,
                  body, exc,
                  detail, www_authenticate>>

\* llm_client.py lines 121-126
ReturnMessage ==
    /\ pc = "lined"
    /\ message' = (IF Len(message) = 0 THEN FALLBACK_MESSAGE ELSE message)
    /\ outcome' = "returned"
    /\ pc' = "returned"
    /\ UNCHANGED <<inputs, invocations, calls, prompt_lines, status, body,
                  exc, detail,
                  www_authenticate>>

\* main.py lines 107-108
Respond200 ==
    /\ pc = "returned"
    /\ status' = 200
    /\ body' = message
    /\ pc' = "responded"
    /\ UNCHANGED <<inputs, invocations, calls, prompt_lines, message,
                  outcome, exc,
                  detail, www_authenticate>>

\* detail=str(e) in place of the fixed text at line 114
Respond503_LeaksText ==
    /\ pc = "raised"
    /\ status' = 503
    /\ pc' = "responded"
    /\ detail' = exc.text
    /\ UNCHANGED <<inputs, invocations, calls, prompt_lines, message,
                  outcome, body, exc,
                  www_authenticate>>

\* main.py lines 110-115
Respond503 ==
    /\ pc = "raised"
    /\ status' = 503
    /\ pc' = "responded"
    /\ detail' = GENERIC_DETAIL
    /\ UNCHANGED <<inputs, invocations, calls, prompt_lines, message,
                  outcome, body, exc,
                  www_authenticate>>

Next ==
    \/ Admit
    \/ RateLimited
    \/ BearerRejectsMissing
    \/ BearerRejectsScheme
    \/ RejectScheme
    \/ RejectToken
    \/ Authenticate
    \/ RejectBody
    \/ AcceptBody
    \/ RejectEmptyDiff
    \/ CallGenerate
    \/ ClientMissing
    \/ SendRequest
    \/ ReceiveCompletion
    \/ BackendFails
    \/ StripQuotes
    \/ StripBackticks
    \/ KeepFirstLine
    \/ ReturnMessage
    \/ Respond200
    \/ Respond503

----------------------------------------------------------------------------
(* Several requests in flight: each request is a task of the event loop    *)
(* with its own locals; the loop runs one task at a time and changes task  *)
(* where the running one awaits                                            *)

\* the running request: its header, its body, its backend call and the
\* locals of verify_token, the handler and the function
Frame ==
    [rid |-> rid, pc |-> pc, diff_text |-> diff_text,
     branch_name |-> branch_name, changed_files |-> changed_files,
     author_name |-> author_name, existing_message |-> existing_message,
     backend |-> backend, authorization |-> authorization,
     fields |-> fields, invocations |-> invocations, calls |-> calls,
     prompt_lines |-> prompt_lines, message |-> message,
     outcome |-> outcome, status |-> status, body |-> body, exc |-> exc,
     detail |-> detail, www_authenticate |-> www_authenticate]

\* the task of frame f runs again
Resume(f) ==
    /\ rid' = f.rid
    /\ pc' = f.pc
    /\ diff_text' = f.diff_text
    /\ branch_name' = f.branch_name
    /\ changed_files' = f.changed_files
    /\ author_name' = f.author_name
    /\ existing_message' = f.existing_message
    /\ backend' = f.backend
    /\ authorization' = f.authorization
    /\ fields' = f.fields
    /\ invocations' = f.invocations
    /\ calls' = f.calls
    /\ prompt_lines' = f.prompt_lines
    /\ message' = f.message
    /\ outcome' = f.outcome
    /\ status' = f.status
    /\ body' = f.body
    /\ exc' = f.exc
    /\ detail' = f.detail
    /\ www_authenticate' = f.www_authenticate

\* where a request can be when the loop runs another one: before a step of
\* the middleware, the dependency or the validation, at the await of
\* llm_client.py line 98, and once it is answered
AwaitPoints ==
    {"incoming", "arrived", "authenticated", "received", "awaiting",
     "responded"}

\* the chat-completion call made without await: the loop is held until the
\* call returns
Switch_BlockingCall(j) ==
    /\ j \in 1..Len(others)
    /\ pc \in AwaitPoints \ {"awaiting"}
    /\ others[j].pc # "responded"
    /\ others' = [others EXCEPT ![j] = Frame]
    /\ Resume(others[j])
    /\ UNCHANGED <<client, hits>>

\* the running request awaits (llm_client.py line 98, main.py line 99, or
\* inside the framework) and the loop runs request others[j]; client and
\* the limiter are module-level and stay
Switch(j) ==
    /\ j \in 1..Len(others)
    /\ pc \in AwaitPoints
    /\ others[j].pc # "responded"
    /\ others' = [others EXCEPT ![j] = Frame]
    /\ Resume(others[j])
    /\ UNCHANGED <<client, hits>>

NextConc ==
    \/ Next
    \/ \E j \in 1..Len(others) : Switch(j)

----------------------------------------------------------------------------
(* Requests and backend behaviours the specifications start from *)

Completion(c) == [kind |-> "ok", content |-> c]
Failure(k) == [kind |-> k, content |-> <<>>]

\* the call raised (connection refused, timeout, non-success status), or
\* the response has no choices or no content
FailureKinds == {"refused", "timeout", "bad_status", "no_choices",
                 "no_content"}

Bearer(token) == [scheme |-> "Bearer", credentials |-> token]

NoAuthorization == [scheme |-> "", credentials |-> ""]

\* no header, no credentials, another scheme, bearer in lower case, a wrong
\* token, the secret
AuthorizationHeaders ==
    {NoAuthorization,
     [scheme |-> "Bearer", credentials |-> ""],
     [scheme |-> "Basic", credentials |-> API_SECRET_KEY],
     [scheme |-> "bearer", credentials |-> API_SECRET_KEY],
     Bearer("wrong_token"),
     Bearer(API_SECRET_KEY)}

DefaultRequest ==
    [diff |-> <<"+", "x">>,
     branch |-> <<"m","a","i","n">>,
     files |-> <<>>,
     author |-> <<"A">>,
     existing |-> <<>>,
     client |-> "ready",
     backend |-> Completion(<<"f","i","x",":"," ","x">>),
     auth |-> Bearer(API_SECRET_KEY),
     fields |-> AllFields,
     hits |-> 0]

\* a few requests that take every path of the handler
PathRequests ==
    {[DefaultRequest EXCEPT !.diff = d, !.client = c, !.backend = b] :
        d \in {<<>>, <<" ", "\n">>, <<"+", "x">>},
        c \in {"ready", "None"},
        b \in {Completion(<<"f","i","x">>), Completion(<<>>)}
              \cup {Failure(k) : k \in FailureKinds}}
    \cup
    {[DefaultRequest EXCEPT !.auth = a, !.fields = f, !.diff = d] :
        a \in AuthorizationHeaders,
        f \in {AllFields, AllFields \ {"branch_name"}, {}},
        d \in {<<>>, <<"+", "x">>}}
    \cup
    {[DefaultRequest EXCEPT !.auth = a, !.hits = h] :
        a \in {Bearer(API_SECRET_KEY), Bearer("wrong_token")},
        h \in {RATE_LIMIT - 1, RATE_LIMIT}}

InitWith(requests) ==
    /\ \E r \in requests \cup PathRequests :
        /\ diff_text = r.diff
        /\ branch_name = r.branch
        /\ changed_files = r.files
        /\ author_name = r.author
        /\ existing_message = r.existing
        /\ client = r.client
        /\ backend = r.backend
        /\ authorization = r.auth
        /\ fields = r.fields
        /\ hits = r.hits
    /\ pc = "incoming"
    /\ invocations = 0
    /\ calls = 0
    /\ prompt_lines = <<>>
    /\ message = <<>>
    /\ outcome = "none"
    /\ status = 0
    /\ body = <<>>
    /\ exc = NoException
    /\ detail = ""
    /\ www_authenticate = ""
    /\ rid = 1
    /\ others = <<>>

\* completions: ordinary text, the two kinds of whitespace the fence strip
\* leaves (a line boundary and a tab), the characters the sanitizer strips
CompletionChars == {"a", " ", "\n", "\r", "\t", "\"", "'", Backtick}

Completions == SeqsUpTo(CompletionChars, MaxLen)

Init == InitWith({[DefaultRequest EXCEPT !.backend = Completion(c)] :
                    c \in Completions})

Spec == Init /\ [][Next]_vars

\* branch names: a lower-case and an upper-case letter, the hyphen, a digit
\* and a separator
BranchChars == {"a", "B", "-", "1", "/"}

InitBranch == InitWith({[DefaultRequest EXCEPT !.branch = b] :
                          b \in SeqsUpTo(BranchChars, MaxBranchLen)})

SpecBranch == InitBranch /\ [][Next]_vars

\* changed_files: lists of two file names
FileNames == {<<"a",".","p","y">>, <<"b">>}

InitFiles == InitWith({[DefaultRequest EXCEPT !.files = f] :
                         f \in SeqsUpTo(FileNames, MaxFiles)})

SpecFiles == InitFiles /\ [][Next]_vars

\* existing messages: a merge phrase, a near miss or nothing, between text
PadChars == {"x", " ", "\n"}

Phrases ==
    {<<>>, MERGE_PR, MERGE_BRANCH,
     SubSeq(MERGE_PR, 1, Len(MERGE_PR) - 1),
     SubSeq(MERGE_BRANCH, 1, Len(MERGE_BRANCH) - 1),
     <<"m">> \o SubSeq(MERGE_PR, 2, Len(MERGE_PR))}

InitExisting ==
    InitWith({[DefaultRequest EXCEPT !.existing = pre \o mid \o suf] :
                pre \in SeqsUpTo(PadChars, MaxPad),
                mid \in Phrases,
                suf \in SeqsUpTo(PadChars, MaxPad)})

SpecExisting == InitExisting /\ [][Next]_vars

\* requests with and without each optional section of the prompt
MaxOrderBranch == 3

OrderBranchChars == {"a", "-", "1"}

OrderExisting == {<<>>, <<" ">>, <<"w", "i", "p">>, MERGE_PR \o <<"7">>}

InitOrder ==
    InitWith({[DefaultRequest EXCEPT !.branch = b, !.files = f,
                                     !.existing = e] :
                b \in SeqsUpTo(OrderBranchChars, MaxOrderBranch),
                f \in SeqsUpTo({<<"b">>}, MaxFiles),
                e \in OrderExisting})

SpecOrder == InitOrder /\ [][Next]_vars

\* requests in flight together
MaxInFlight == 2

\* requests that together take every path: answered with different
\* completions, failing at the backend, and rejected at each check
ConcRequests ==
    {[DefaultRequest EXCEPT !.backend = b] :
        b \in {Completion(<<"\"", "a", "\n", "b">>), Failure("timeout")}}
    \cup {[DefaultRequest EXCEPT !.diff = <<" ">>],
          [DefaultRequest EXCEPT !.fields = AllFields \ {"author_name"}],
          [DefaultRequest EXCEPT !.client = "None"]}
    \cup {[DefaultRequest EXCEPT !.auth = a] : a \in AuthorizationHeaders}

\* the requests waiting behind the first: the default one or a failing one
ParkedRequests ==
    {DefaultRequest, [DefaultRequest EXCEPT !.backend = Failure("refused")]}

\* request r as task i, not yet started
NewFrame(i, r) ==
    [rid |-> i, pc |-> "incoming", diff_text |-> r.diff,
     branch_name |-> r.branch, changed_files |-> r.files,
     author_name |-> r.author, existing_message |-> r.existing,
     backend |-> r.backend, authorization |-> r.auth, fields |-> r.fields,
     invocations |-> 0, calls |-> 0, prompt_lines |-> <<>>,
     message |-> <<>>, outcome |-> "none", status |-> 0, body |-> <<>>,
     exc |-> NoException, detail |-> "", www_authenticate |-> ""]

\* MaxInFlight requests arrive together; the limiter has counted none, or
\* all but one, of the requests it admits in the window
InitConc ==
    /\ \E r \in ConcRequests :
        /\ client = r.client
        /\ diff_text = r.diff
        /\ branch_name = r.branch
        /\ changed_files = r.files
        /\ author_name = r.author
        /\ existing_message = r.existing
        /\ backend = r.backend
        /\ authorization = r.auth
        /\ fields = r.fields
    /\ hits \in {0, RATE_LIMIT - 1}
    /\ pc = "incoming"
    /\ invocations = 0
    /\ calls = 0
    /\ prompt_lines = <<>>
    /\ message = <<>>
    /\ outcome = "none"
    /\ status = 0
    /\ body = <<>>
    /\ exc = NoException
    /\ detail = ""
    /\ www_authenticate = ""
    /\ rid = 1
    /\ \E rs \in [1..(MaxInFlight - 1) -> ParkedRequests] :
          others = [j \in 1..(MaxInFlight - 1) |-> NewFrame(j + 1, rs[j])]

\* request i is made the running one
SwitchTo(i) ==
    \E j \in 1..Len(others) : others[j].rid = i /\ Switch(j)

\* a step of request i; for request 1 any step but its backend answering
RequestStep(i) ==
    /\ rid = i
    /\ Next
    /\ i = 1 => ~(ReceiveCompletion \/ BackendFails)

\* the event loop runs every task that is ready, and the code of a request
\* goes on when it runs; the backend answers every call but that of
\* request 1, which may stay unanswered
SpecConc ==
    /\ InitConc
    /\ [][NextConc]_vars
    /\ \A i \in 1..MaxInFlight :
          SF_vars(SwitchTo(i)) /\ SF_vars(RequestStep(i))

\* diffs of n characters with a line break every p characters
DiffOf(n, p) ==
    [i \in 1..n |-> IF i % p = 0 THEN "\n"
                    ELSE <<"+", "-", "a", " ">>[(i % 4) + 1]]

DiffLengths ==
    (0..MaxOver) \cup ((max_diff_len - MaxOver)..(max_diff_len + MaxOver))

InitDiff == InitWith({[DefaultRequest EXCEPT !.diff = DiffOf(n, p)] :
                        n \in DiffLengths, p \in 1..MaxPeriod})

SpecDiff == InitDiff /\ [][Next]_vars

----------------------------------------------------------------------------
(* The whole post-processing as one function of the completion *)

\* llm_client.py lines 109-116: the text the first line is taken from
\* (defined above as Cleaned); lines 109-126: the value returned (Sanitize).
\* The steps of the request compute the same values.
StepsAgree ==
    /\ pc = "stripped" => message = Cleaned(backend.content)
    /\ outcome = "returned" => message = Sanitize(backend.content)

----------------------------------------------------------------------------
(* Properties *)

Returned == outcome = "returned"

\* the backend has answered the call with a completion
Completed == calls = 1 /\ backend.kind = "ok" /\ pc # "awaiting"

\* the prompt has been built and sent
Sent == calls = 1

LinesWith(fmt) == {i \in 1..Len(prompt_lines) : prompt_lines[i].fmt = fmt}

\* s has text after its first line boundary (\r\n is one boundary)
SeveralLines(s) ==
    LET i == FirstIn(s, LineBreaks)
    IN  /\ i <= Len(s)
        /\ (IF s[i] = "\r" /\ i < Len(s) /\ s[i + 1] = "\n" THEN i + 1 ELSE i)
               < Len(s)

\* r is the first line of s
IsFirstLineOf(r, s) ==
    /\ Len(r) <= Len(s)
    /\ r = SubSeq(s, 1, Len(r))
    /\ Range(r) \cap LineBreaks = {}
    /\ Len(r) < Len(s) => s[Len(r) + 1] \in LineBreaks

\* C1: whatever completion the backend returns, the message returned by
\* generate_commit_message_with_context is non-empty and holds no line break.
C1_NonEmptySingleLine ==
    Returned => Len(message) > 0 /\ Range(message) \cap LineBreaks = {}

\* a completion of several lines was reduced to a line of its own text
C1_Witness ==
    /\ Returned
    /\ SeveralLines(Strip(backend.content))
    /\ message # FALLBACK_MESSAGE
    /\ Len(message) < Len(Strip(backend.content))

\* C2: an empty or whitespace-only completion is returned as the fallback
\* message, no exception is raised, and the endpoint answers 200 with it.
C2_BlankGivesFallback ==
    (Completed /\ Range(backend.content) \subseteq Whitespace) =>
        /\ outcome # "ConnectionError"
        /\ Returned => message = FALLBACK_MESSAGE
        /\ pc = "responded" => status = 200 /\ body = FALLBACK_MESSAGE

\* a whitespace-only completion was answered 200 with the fallback message
C2_Witness ==
    /\ IsSpace(backend.content)
    /\ pc = "responded"
    /\ status = 200
    /\ body = FALLBACK_MESSAGE

\* s starts and ends with the same quote character
QuotedPair(s) == Len(s) >= 2 /\ s[1] \in Quotes /\ s[Len(s)] = s[1]

\* s with a leading quote removed if it has one, then a trailing quote removed
\* if what is left has one
EachEndUnquoted(s) ==
    LET a == IF Len(s) > 0 /\ s[1] \in Quotes THEN 1 ELSE 0
        b == IF Len(s) > a /\ s[Len(s)] \in Quotes THEN 1 ELSE 0
    IN  SubSeq(s, 1 + a, Len(s) - b)

\* C3 as stated: quote stripping removes the two end characters of a trimmed
\* completion (of two characters or more) when they are the same quote
\* character, and removes nothing otherwise.
C3_OnlyMatchingPair ==
    [][(pc = "trimmed" /\ pc' = "unquoted" /\ Len(message) >= 2) =>
         message' = (IF QuotedPair(message)
                     THEN SubSeq(message, 2, Len(message) - 1)
                     ELSE message)]_vars

\* C3 amended: quote stripping removes a leading quote character whenever the
\* trimmed completion starts with one, and a trailing quote character whenever
\* what is left ends with one, whatever the other end carries.
C3_EachEndStripped ==
    [][(pc = "trimmed" /\ pc' = "unquoted") =>
         message' = EachEndUnquoted(message)]_vars

\* a completion with a quote at its start only lost that quote
C3_Witness ==
    /\ pc = "unquoted"
    /\ Len(Strip(backend.content)) >= 2
    /\ Strip(backend.content)[1] \in Quotes
    /\ Strip(backend.content)[Len(Strip(backend.content))] \notin Quotes
    /\ message = SubSeq(Strip(backend.content), 2, Len(Strip(backend.content)))

\* C4: the sanitizer is idempotent: sanitizing a returned message again
\* gives the same message.
C4_Idempotent ==
    Returned => Sanitize(message) = message

\* C5: a returned message other than the fallback neither begins nor ends
\* with a backtick or a whitespace character, and is not enclosed in a
\* matching pair of quote characters.
C5_CleanEnds ==
    (Returned /\ message # FALLBACK_MESSAGE) =>
        /\ message[1] \notin Whitespace \cup {Backtick}
        /\ message[Len(message)] \notin Whitespace \cup {Backtick}
        /\ ~QuotedPair(message)

FencedDiff ==
    LET i == CHOOSE i \in LinesWith(FENCE_OPEN) : TRUE
    IN  prompt_lines[i + 1].args[1]

\* exactly one opening fence line, with one line between it and the closing
\* fence line
OneFencedBlock ==
    /\ Cardinality(LinesWith(FENCE_OPEN)) = 1
    /\ \A i \in LinesWith(FENCE_OPEN) :
        /\ i + 2 <= Len(prompt_lines)
        /\ prompt_lines[i + 1].fmt = DIFF_FMT
        /\ prompt_lines[i + 2].fmt = FENCE_CLOSE

MarkerText == <<".",".","."," ","[","T","R","U","N","C","A","T","E","D","]">>

\* C7 as stated: the fenced text is the first 15,000 characters of a longer
\* diff_text immediately followed by the marker, and a diff_text of 15,000
\* characters or fewer verbatim.
C7_MarkerAfterPrefix ==
    Sent =>
        /\ OneFencedBlock
        /\ FencedDiff = (IF Len(diff_text) > 15000
                         THEN SubSeq(diff_text, 1, 15000) \o MarkerText
                         ELSE diff_text)

\* C7 amended: for a diff_text longer than 15,000 characters the fenced text
\* is its first 15,000 characters, a line break and then the marker; a
\* diff_text of 15,000 characters or fewer appears verbatim with no marker.
C7_MarkerOnOwnLine ==
    Sent =>
        /\ OneFencedBlock
        /\ FencedDiff = (IF Len(diff_text) > 15000
                         THEN SubSeq(diff_text, 1, 15000) \o <<"\n">>
                              \o MarkerText
                         ELSE diff_text)

\* a diff longer than the limit was sent cut and marked
C7_Witness ==
    /\ Sent
    /\ Len(diff_text) > 15000
    /\ Len(FencedDiff) = 15016

\* C8: no Changed Files section for an empty changed_files; otherwise the
\* header, then the first min(n, 10) entries in input order, then one
\* "... (n-10 more)" line exactly when n > 10.
C8_ChangedFilesSection ==
    Sent =>
        LET n == Len(changed_files)
            shown == IF n < 10 THEN n ELSE 10
            H == LinesWith(FILES_HEADER)
            F == LinesWith(FILE_FMT)
            M == LinesWith(MORE_FMT)
        IN  IF n = 0
            THEN H = {} /\ F = {} /\ M = {}
            ELSE /\ Cardinality(H) = 1
                 /\ \A h \in H :
                     /\ F = (h + 1)..(h + shown)
                     /\ \A k \in 1..shown :
                         prompt_lines[h + k].args = <<changed_files[k]>>
                     /\ M = (IF n > 10 THEN {h + shown + 1} ELSE {})
                     /\ \A m \in M : prompt_lines[m].args = <<Str(n - 10)>>

\* more than ten files were listed as ten lines and a summary line
C8_Witness ==
    /\ Sent
    /\ Len(changed_files) > 10
    /\ Cardinality(LinesWith(FILE_FMT)) = 10
    /\ Cardinality(LinesWith(MORE_FMT)) = 1

\* existing_message is empty or whitespace-only
Blank(s) == Range(s) \subseteq Whitespace

MergeMessage(s) == Contains(s, MERGE_PR) \/ Contains(s, MERGE_BRANCH)

\* C9: at most one existing-message line: the merge note when
\* existing_message holds a merge phrase, the draft line when it is non-blank
\* and holds none, no line when it is blank; never both.
C9_OneExistingLine ==
    Sent =>
        LET notes == Cardinality(LinesWith(MERGE_NOTE_FMT))
            drafts == Cardinality(LinesWith(DRAFT_FMT))
        IN  /\ notes + drafts <= 1
            /\ MergeMessage(existing_message) => notes = 1
            /\ (~Blank(existing_message) /\ ~MergeMessage(existing_message))
                   => drafts = 1
            /\ Blank(existing_message) => notes + drafts = 0

\* a merge message gave the note and no draft line
C9_Witness ==
    /\ Sent
    /\ MergeMessage(existing_message)
    /\ LinesWith(MERGE_NOTE_FMT) # {}
    /\ LinesWith(DRAFT_FMT) = {}

AsciiLetters == Range(LowerCase) \cup Range(UpperCase)

\* s[i..k] is one or more letters, a hyphen and one or more digits
TicketLike(s, i, k) ==
    \E j \in (i + 1)..(k - 1) :
        /\ s[j] = "-"
        /\ \A x \in i..(j - 1) : s[x] \in AsciiLetters
        /\ \A x \in (j + 1)..k : s[x] \in Digits

TicketSpans(s) ==
    {sp \in (1..Len(s)) \X (1..Len(s)) : TicketLike(s, sp[1], sp[2])}

\* the leftmost ticket-like substring, the longest of those starting there
LeftmostTicket(s) ==
    LET sp == CHOOSE sp \in TicketSpans(s) :
                \A o \in TicketSpans(s) :
                    sp[1] < o[1] \/ (sp[1] = o[1] /\ sp[2] >= o[2])
    IN  SubSeq(s, sp[1], sp[2])

\* C10: the prompt has a ticket line exactly when branch_name holds letters,
\* a hyphen and digits; then it has one, naming the leftmost match in upper
\* case.
C10_TicketLine ==
    Sent =>
        LET T == LinesWith(TICKET_FMT)
        IN  IF TicketSpans(branch_name) = {}
            THEN T = {}
            ELSE /\ Cardinality(T) = 1
                 /\ \A t \in T :
                     prompt_lines[t].args
                         = <<Upper(LeftmostTicket(branch_name))>>

\* a lower-case ticket in the branch name was surfaced in upper case
C10_Witness ==
    /\ Sent
    /\ LinesWith(TICKET_FMT) # {}
    /\ \A t \in LinesWith(TICKET_FMT) :
        prompt_lines[t].args # <<LeftmostTicket(branch_name)>>

\* the backend call of this request fails: no client, or the call raises
\* or answers without choices or content
BackendFailure == client = "None" \/ backend.kind # "ok"

Answered == pc = "responded"

\* the limiter answered the request
Limited == Answered /\ status = 429

\* the request was answered by the route: its dependency or its handler
Handled == Answered /\ ~Limited

\* C11: when the backend call fails in any way, the generation function
\* raises ConnectionError (with the failure as its cause), and the endpoint
\* answers 503 with the one generic detail, whatever the exception's text.
C11_UniformFailure ==
    /\ (invocations = 1 /\ BackendFailure /\ pc \in {"raised", "responded"})
          => /\ outcome = "ConnectionError"
             /\ client # "None" => exc.cause = backend.kind
    /\ (invocations = 1 /\ BackendFailure /\ Answered)
          => /\ status = 503
             /\ detail = GENERIC_DETAIL
             /\ body = <<>>

\* a response without content was answered 503, and the exception's text is
\* not the detail
C11_Witness ==
    /\ Answered
    /\ outcome = "ConnectionError"
    /\ backend.kind = "no_content"
    /\ status = 503
    /\ exc.text # detail

TokenMatches == authorization = Bearer(API_SECRET_KEY)

BlankDiff == Len(diff_text) = 0 \/ IsSpace(diff_text)

\* C12: the generation function is invoked only for a request whose bearer
\* token is the secret, whose body has all five fields and whose diff_text
\* is not blank; a request failing a check is answered 401/403, 422 or 400
\* (the first check it fails, once the rate limit has let it through to the
\* route) and the function is not invoked for it.
C12_InvokedOnlyAfterChecks ==
    /\ invocations > 0 =>
          TokenMatches /\ fields = AllFields /\ ~BlankDiff
    /\ (Handled /\ ~TokenMatches) =>
          status \in {401, 403} /\ invocations = 0
    /\ (Handled /\ TokenMatches /\ fields # AllFields) =>
          status = 422 /\ invocations = 0
    /\ (Handled /\ TokenMatches /\ fields = AllFields /\ BlankDiff) =>
          status = 400 /\ invocations = 0
    /\ Limited => invocations = 0

\* a request with the secret and a complete body but a whitespace-only diff
\* was answered 400 without an invocation
C12_Witness ==
    /\ Answered
    /\ TokenMatches
    /\ fields = AllFields
    /\ IsSpace(diff_text)
    /\ status = 400
    /\ invocations = 0

Rejected == Answered /\ status \in {401, 403}

WrongToken ==
    /\ authorization.scheme = "Bearer"
    /\ authorization.credentials \notin {"", API_SECRET_KEY}

\* C13: every authentication rejection (status 401 or 403) carries the
\* header WWW-Authenticate: Bearer; an absent header and a wrong token are
\* both answered 403; a request with the secret as Bearer token is never
\* rejected by authentication.
C13_RejectionCarriesHeader ==
    /\ (Handled /\ ~TokenMatches) => Rejected
    /\ Rejected => www_authenticate = "Bearer"
    /\ (Handled /\ (authorization = NoAuthorization \/ WrongToken))
          => status = 403
    /\ (Handled /\ TokenMatches) => ~Rejected

ClaimedRank(fmt) ==
    CASE fmt = INSTRUCTION -> 1
      [] fmt = CONTEXT_HEADER -> 2
      [] fmt = BRANCH_FMT -> 3
      [] fmt = AUTHOR_FMT -> 4
      [] fmt = TICKET_FMT -> 5
      [] fmt = FILES_HEADER -> 6
      [] fmt = FILE_FMT -> 7
      [] fmt = MORE_FMT -> 8
      [] fmt \in {MERGE_NOTE_FMT, DRAFT_FMT} -> 9
      [] fmt = DIFF_HEADER -> 10
      [] fmt = FENCE_OPEN -> 11
      [] fmt = DIFF_FMT -> 12
      [] fmt = FENCE_CLOSE -> 13
      [] fmt = FINAL_LINE -> 14
      [] OTHER -> 0

\* the same order with the ticket hint between the branch and the author
TicketFirstRank(fmt) ==
    CASE fmt = TICKET_FMT -> 4
      [] fmt = AUTHOR_FMT -> 5
      [] OTHER -> ClaimedRank(fmt)

AlwaysPresent ==
    {INSTRUCTION, CONTEXT_HEADER, BRANCH_FMT, AUTHOR_FMT, DIFF_HEADER,
     FENCE_OPEN, DIFF_FMT, FENCE_CLOSE, FINAL_LINE}

\* every line has a place, the fixed lines are there, and the places grow
\* along the prompt (only file entries repeat)
InOrder(Rank(_)) ==
    /\ \A i \in 1..Len(prompt_lines) : Rank(prompt_lines[i].fmt) > 0
    /\ \A f \in AlwaysPresent : LinesWith(f) # {}
    /\ \A i \in 1..Len(prompt_lines) : \A j \in (i + 1)..Len(prompt_lines) :
          \/ Rank(prompt_lines[i].fmt) < Rank(prompt_lines[j].fmt)
          \/ prompt_lines[i].fmt = FILE_FMT /\ prompt_lines[j].fmt = FILE_FMT

\* C15 as stated: the prompt's lines are the instruction, the Context header
\* with branch and author, the ticket hint, the changed files, the existing
\* message note, the diff section and the final line, in this order; the
\* ticket hint comes after both the Branch and the Author line.
C15_TicketAfterAuthor == Sent => InOrder(ClaimedRank)

\* C15 amended: the same order, except that the ticket hint comes after the
\* Branch line and before the Author line.
C15_TicketBeforeAuthor == Sent => InOrder(TicketFirstRank)

\* a prompt with a ticket hint, more files than the limit and a merge note
C15_Witness ==
    /\ Sent
    /\ LinesWith(TICKET_FMT) # {}
    /\ LinesWith(MORE_FMT) # {}
    /\ LinesWith(MERGE_NOTE_FMT) # {}
    /\ \A t \in LinesWith(TICKET_FMT) : \A a \in LinesWith(AUTHOR_FMT) : t < a

\* all requests in flight, the running one and the suspended ones
Frames == {Frame} \cup Range(others)

\* the response the route gives to the request of frame f, from its header,
\* its body and its backend alone (and the module's client)
OwnResponse(f) ==
    LET a == f.authorization IN
    IF a.scheme = "" \/ a.credentials = "" \/ ~IsBearer(a.scheme)
    THEN [status |-> 403, body |-> <<>>]
    ELSE IF a.scheme # "Bearer" THEN [status |-> 401, body |-> <<>>]
    ELSE IF a.credentials # API_SECRET_KEY
    THEN [status |-> 403, body |-> <<>>]
    ELSE IF f.fields # AllFields THEN [status |-> 422, body |-> <<>>]
    ELSE IF Len(f.diff_text) = 0 \/ IsSpace(f.diff_text)
    THEN [status |-> 400, body |-> <<>>]
    ELSE IF client = "None" \/ f.backend.kind # "ok"
    THEN [status |-> 503, body |-> <<>>]
    ELSE [status |-> 200, body |-> Sanitize(f.backend.content)]

ResponseOf(f) == [status |-> f.status, body |-> f.body]

FrameOf(i) == CHOOSE f \in Frames : f.rid = i

AnsweredRequest(i) == \E f \in Frames : f.rid = i /\ f.pc = "responded"

\* C16 as stated: the response to every request in flight is the one its
\* own header, body and backend determine, whatever the other requests do.
C16_OwnInputsOnly ==
    \A f \in Frames :
        f.pc = "responded" => ResponseOf(f) = OwnResponse(f)

\* every request the limiter let through is answered as its own inputs
\* determine, and only a request over the limit is answered 429
C16_Isolated ==
    \A f \in Frames :
        f.pc = "responded" =>
            IF f.status = 429
            THEN hits >= RATE_LIMIT /\ f.invocations = 0
            ELSE ResponseOf(f) = OwnResponse(f)

\* C16 amended: the rate limiter's count is the one state requests share;
\* a request it lets through is answered as its own header, body and
\* backend determine, in every interleaving, and every request but the
\* first is answered even if the backend call of the first never returns.
C16_IsolatedAndNotStalled ==
    /\ []C16_Isolated
    /\ \A i \in 2..MaxInFlight : <>AnsweredRequest(i)

\* request 2 was answered 200 with its own message while request 1, given a
\* different completion, still waits for its backend call
C16_Witness ==
    /\ AnsweredRequest(2)
    /\ FrameOf(2).status = 200
    /\ FrameOf(2).body = Sanitize(FrameOf(2).backend.content)
    /\ FrameOf(1).pc = "awaiting"
    /\ FrameOf(1).backend # FrameOf(2).backend

====
